---- MODULE Spec2Model ----
(***************************************************************************)
(* Model of the unit converter (src/unit_converter.cpp, unit_converter.h). *)
(*                                                                         *)
(* A double is modelled as an exact rational, or one of the IEEE specials  *)
(* +infinity, -infinity, NaN.  A finite value is kept as a whole part and  *)
(* a proper fraction, w + n/d with 0 <= n < d and gcd(n, d) = 1, so that   *)
(* the arithmetic of the formulas stays inside the integers of TLC.        *)
(* Rounding of finite doubles is not modelled: finite arithmetic is exact. *)
(***************************************************************************)
EXTENDS Integers, Sequences, FiniteSets, TLC

VARIABLES
    conversionFunctions,  \* UnitConverter::conversionFunctions (name -> formula)
    call,                 \* the last call of convert made on the converter
    prev,                 \* the call whose result was fed to `call` (round trip)
    pc,                   \* position of main / of the running category handler
    input,                \* what is left to read on std::cin
    cin,                  \* stream state of std::cin: failbit, eofbit
    mainChoice,           \* `choice` of main
    handler,              \* the category handler that runs (1..4), 0 if none
    value,                \* `value` of the running handler
    choice,               \* `choice` of the running handler
    valueRead,            \* safeReadDouble returned true in this invocation
    choiceRead,           \* what `std::cin >> choice` extracted in this invocation
    calls,                \* calls of convert made by this invocation
    cliCall,              \* the last call of convert made by a handler
    err,                  \* the last line written to std::cerr
    optionRead            \* what `std::cin >> choice` of main extracted last

apiVars == <<call, prev>>
cliVars == <<pc, input, cin, mainChoice, handler, value, choice, valueRead,
             choiceRead, calls, cliCall, err, optionRead>>
vars == <<conversionFunctions, call, prev, pc, input, cin, mainChoice, handler,
          value, choice, valueRead, choiceRead, calls, cliCall, err, optionRead>>

---------------------------------------------------------------------------
(* Bounds of the model *)

\* inputs are taken up to Spread hundredths either side of each pivot value
Spread == 2

\* longest text on std::cin, in tokens
MaxInput == 4

---------------------------------------------------------------------------
(* Doubles *)

RECURSIVE GCD(_, _)
GCD(a, b) == IF b = 0 THEN a ELSE GCD(b, a % b)

\* floor(a / b) for b > 0
FloorDiv(a, b) == (a - (a % b)) \div b

\* the finite double w + n/d (d > 0, n any integer), in normal form
Mk(w, n, d) ==
    LET r == n % d
        g == GCD(d, r)
    IN  [k |-> "fin", w |-> w + FloorDiv(n, d), n |-> r \div g, d |-> d \div g]

\* the finite double a / b
Rat(a, b) == Mk(0, a, b)

PInf == [k |-> "pinf", w |-> 0, n |-> 0, d |-> 1]
NInf == [k |-> "ninf", w |-> 0, n |-> 0, d |-> 1]
NaN  == [k |-> "nan",  w |-> 0, n |-> 0, d |-> 1]

IsFinite(x) == x.k = "fin"
IsNaN(x) == x.k = "nan"
IsInf(x) == x.k \in {"pinf", "ninf"}

\* <<Q, R>> with a * b = Q * c + R and 0 <= R < c, for a, b >= 0 and c > 0,
\* computed without forming a * b
RECURSIVE MulDivMod(_, _, _)
MulDivMod(a, b, c) ==
    IF a = 0 \/ b = 0 THEN <<0, 0>>
    ELSE IF a <= 2147483647 \div b THEN <<(a * b) \div c, (a * b) % c>>
    ELSE LET h  == MulDivMod(a, b \div 2, c)
             r2 == 2 * h[2]
             q2 == 2 * h[1] + (IF r2 >= c THEN 1 ELSE 0)
             m2 == IF r2 >= c THEN r2 - c ELSE r2
             r3 == IF b % 2 = 1 THEN m2 + (a % c) ELSE m2
             q3 == IF b % 2 = 1 THEN q2 + (a \div c) ELSE q2
         IN  IF r3 >= c THEN <<q3 + 1, r3 - c>> ELSE <<q3, r3>>

\* (a / b) * (p / q) for a, p >= 0 and b, q > 0
MulFrac(a, b, p, q) ==
    LET g1 == GCD(a, q)
        g2 == GCD(p, b)
        h1 == IF g1 = 0 THEN 1 ELSE g1
        h2 == IF g2 = 0 THEN 1 ELSE g2
        dd == (b \div h2) * (q \div h1)
        qr == MulDivMod(a \div h1, p \div h2, dd)
    IN  Mk(qr[1], qr[2], dd)

FNeg(x) == Mk(0 - x.w, 0 - x.n, x.d)

FAdd(x, y) ==
    LET g == GCD(x.d, y.d)
        l == (x.d \div g) * y.d
    IN  Mk(x.w + y.w, x.n * (l \div x.d) + y.n * (l \div y.d), l)

FLess(x, y) == x.w < y.w \/ (x.w = y.w /\ x.n * y.d < y.n * x.d)

\* x * (p / q) for finite x and integers p, q > 0
FScale(x, p, q) ==
    IF x.w >= 0
    THEN FAdd(MulFrac(x.w, 1, p, q), MulFrac(x.n, x.d, p, q))
    ELSE FAdd(FNeg(MulFrac(0 - x.w, 1, p, q)), MulFrac(x.n, x.d, p, q))

\* numerator of the positive finite double c over its denominator c.d
Numer(c) == c.w * c.d + c.n

\* IEEE x + c, x - c, x * c, x / c for a finite (c > 0 in the products) c
DAdd(x, c) == IF IsFinite(x) THEN FAdd(x, c) ELSE x
DSub(x, c) == IF IsFinite(x) THEN FAdd(x, FNeg(c)) ELSE x
DMul(x, c) == IF IsFinite(x) THEN FScale(x, Numer(c), c.d) ELSE x
DDiv(x, c) == IF IsFinite(x) THEN FScale(x, c.d, Numer(c)) ELSE x

\* IEEE x < y: false as soon as one side is NaN
DLess(x, y) ==
    CASE IsNaN(x) \/ IsNaN(y) -> FALSE
      [] x.k = "ninf" -> y.k # "ninf"
      [] x.k = "pinf" -> FALSE
      [] y.k = "ninf" -> FALSE
      [] y.k = "pinf" -> TRUE
      [] OTHER -> FLess(x, y)

DGreater(x, y) == DLess(y, x)

---------------------------------------------------------------------------
(* The registry: UnitConverter::conversionFunctions *)

\* the lambdas stored in the map, as data
Lambda(op, c) == [op |-> op, c |-> c]

\* it->second(value): the call of a stored lambda
Apply(f, v) ==
    CASE f.op = "CtoF" -> DAdd(DDiv(DMul(v, Rat(9, 1)), Rat(5, 1)), Rat(32, 1))
      [] f.op = "FtoC" -> DDiv(DMul(DSub(v, Rat(32, 1)), Rat(5, 1)), Rat(9, 1))
      [] f.op = "add"  -> DAdd(v, f.c)
      [] f.op = "sub"  -> DSub(v, f.c)
      [] f.op = "mul"  -> DMul(v, f.c)
      [] f.op = "div"  -> DDiv(v, f.c)

\* conversionFunctions[name] = f
Put(reg, name, f) ==
    [x \in DOMAIN reg \cup {name} |-> IF x = name THEN f ELSE reg[x]]

EmptyMap == [x \in {} |-> Lambda("add", Rat(0, 1))]

registerTemperatureConversions(reg) ==
    LET r1 == Put(reg, "CelsiusToFahrenheit", Lambda("CtoF", Rat(0, 1)))
        r2 == Put(r1, "FahrenheitToCelsius", Lambda("FtoC", Rat(0, 1)))
        r3 == Put(r2, "CelsiusToKelvin", Lambda("add", Rat(27315, 100)))
    IN  Put(r3, "KelvinToCelsius", Lambda("sub", Rat(27315, 100)))

registerDistanceConversions(reg) ==
    LET r1 == Put(reg, "KilometersToMiles", Lambda("mul", Rat(621371, 1000000)))
        r2 == Put(r1, "MilesToKilometers", Lambda("div", Rat(621371, 1000000)))
        r3 == Put(r2, "MetersToFeet", Lambda("mul", Rat(328084, 100000)))
    IN  Put(r3, "FeetToMeters", Lambda("div", Rat(328084, 100000)))

registerWeightConversions(reg) ==
    LET r1 == Put(reg, "KilogramsToPounds", Lambda("mul", Rat(220462, 100000)))
        r2 == Put(r1, "PoundsToKilograms", Lambda("div", Rat(220462, 100000)))
        r3 == Put(r2, "GramsToOunces", Lambda("mul", Rat(35274, 1000000)))
    IN  Put(r3, "OuncesToGrams", Lambda("div", Rat(35274, 1000000)))

registerVolumeConversions(reg) ==
    LET r1 == Put(reg, "LitersToGallons", Lambda("mul", Rat(264172, 1000000)))
        r2 == Put(r1, "GallonsToLiters", Lambda("div", Rat(264172, 1000000)))
        r3 == Put(r2, "MillilitersToFluidOunces", Lambda("mul", Rat(33814, 1000000)))
    IN  Put(r3, "FluidOuncesToMilliliters", Lambda("div", Rat(33814, 1000000)))

registerConversionFunctions(reg) ==
    registerVolumeConversions(
        registerWeightConversions(
            registerDistanceConversions(
                registerTemperatureConversions(reg))))

\* UnitConverter::UnitConverter(): the map starts empty
UnitConverter == registerConversionFunctions(EmptyMap)

---------------------------------------------------------------------------
(* UnitConverter::convert *)

\* conversionType.find(sub) != std::string::npos
Find(conversionType, sub) ==
    \E i \in 1..(Len(conversionType) - Len(sub) + 1) :
        SubSeq(conversionType, i, i + Len(sub) - 1) = sub

\* throw std::invalid_argument(what)
Throw(what) ==
    [status |-> "error", what |-> what, result |-> NaN, arg |-> NaN]

\* return it->second(v)
Return(f, v) ==
    [status |-> "ok", what |-> "", result |-> Apply(f, v), arg |-> v]

IsTemperature(conversionType) ==
    \/ Find(conversionType, "Celsius")
    \/ Find(conversionType, "Fahrenheit")
    \/ Find(conversionType, "Kelvin")

\* the Celsius value the temperature check compares with absolute zero
cVal(conversionType, v) ==
    IF Find(conversionType, "Fahrenheit")
    THEN DDiv(DMul(DSub(v, Rat(32, 1)), Rat(5, 1)), Rat(9, 1))
    ELSE IF Find(conversionType, "Kelvin")
         THEN DSub(v, Rat(27315, 100))
         ELSE v

IsDistance(conversionType) ==
    \/ Find(conversionType, "Kilometers")
    \/ Find(conversionType, "Miles")
    \/ Find(conversionType, "Meters")
    \/ Find(conversionType, "Feet")

IsWeight(conversionType) ==
    \/ Find(conversionType, "Kilograms")
    \/ Find(conversionType, "Pounds")
    \/ Find(conversionType, "Grams")
    \/ Find(conversionType, "Ounces")

IsVolume(conversionType) ==
    \/ Find(conversionType, "Liters")
    \/ Find(conversionType, "Gallons")
    \/ Find(conversionType, "Milliliters")
    \/ Find(conversionType, "FluidOunces")

\* the clamp without its upper branch
ClampNoUpper(v) ==
    IF DLess(v, Rat(-1000000, 1)) THEN Rat(-1000000, 1) ELSE v

\* if (value > 1e6) value = 1e6; else if (value < -1e6) value = -1e6;
Clamp(v) ==
    IF DGreater(v, Rat(1000000, 1)) THEN Rat(1000000, 1)
    ELSE IF DLess(v, Rat(-1000000, 1)) THEN Rat(-1000000, 1)
    ELSE v

\* the message without the name
UnknownMessageNoName(conversionType) == "Invalid conversion type: "

\* "Invalid conversion type: " + conversionType
UnknownMessage(conversionType) == "Invalid conversion type: " \o conversionType

\* conversionFunctions[conversionType]: inserts an entry when there is none
MapAfterIndex(reg, conversionType) ==
    IF conversionType \in DOMAIN reg THEN reg
    ELSE Put(reg, conversionType, Lambda("add", Rat(0, 1)))

\* the map after conversionFunctions.find(conversionType) in the const method
MapAfterFind(reg, conversionType) == reg

\* convert with the lookup made before the category checks
convertLookupFirst(reg, conversionType, v) ==
    IF conversionType \notin DOMAIN reg
    THEN Throw(UnknownMessage(conversionType))
    ELSE IF IsTemperature(conversionType)
          /\ DLess(cVal(conversionType, v), Rat(-27315, 100))
    THEN Throw("Temperature value below absolute zero is not valid.")
    ELSE IF IsDistance(conversionType) /\ DLess(v, Rat(0, 1))
    THEN Throw("Negative distance values are not valid.")
    ELSE IF IsWeight(conversionType) /\ DLess(v, Rat(0, 1))
    THEN Throw("Negative weight values are not valid.")
    ELSE IF IsVolume(conversionType) /\ DLess(v, Rat(0, 1))
    THEN Throw("Negative volume values are not valid.")
    ELSE Return(reg[conversionType], Clamp(v))

\* the outcome of convert(conversionType, v) on a converter holding reg
convert(reg, conversionType, v) ==
    IF IsTemperature(conversionType)
          /\ DLess(cVal(conversionType, v), Rat(-27315, 100))
    THEN Throw("Temperature value below absolute zero is not valid.")
    ELSE IF IsDistance(conversionType) /\ DLess(v, Rat(0, 1))
    THEN Throw("Negative distance values are not valid.")
    ELSE IF IsWeight(conversionType) /\ DLess(v, Rat(0, 1))
    THEN Throw("Negative weight values are not valid.")
    ELSE IF IsVolume(conversionType) /\ DLess(v, Rat(0, 1))
    THEN Throw("Negative volume values are not valid.")
    ELSE IF conversionType \in DOMAIN reg
    THEN Return(reg[conversionType], Clamp(v))
    ELSE Throw(UnknownMessage(conversionType))

---------------------------------------------------------------------------
(* Calls of convert on a constructed converter, as the tests make them *)

\* the names the tests pass to convert that are not registered
UnregisteredNames ==
    {"InvalidType", "KelvinToFahrenheits", "MetersToYards", "KilogramsToStones",
     "LitersToCups", "celsiustofahrenheit", "", "KelvinToMiles", "FeetToPounds"}

\* the values around which inputs are drawn, in hundredths
Pivots == {-100000000, -45967, -27315, 0, 27315, 100000000}

\* the doubles passed to convert
Values ==
    {Rat(p + i, 100) : p \in Pivots, i \in (0 - Spread)..Spread}
        \cup {Rat(-10000000, 1), Rat(-300, 1), Rat(-10, 1), Rat(1, 1),
              Rat(100, 1), Rat(10000000, 1)}
        \cup {PInf, NInf, NaN}

NoCall ==
    [name |-> "", value |-> NaN, status |-> "none", what |-> "",
     result |-> NaN, arg |-> NaN]

\* the record of one call convert(conversionType, v)
CallOf(reg, conversionType, v) ==
    LET out == convert(reg, conversionType, v)
    IN  [name |-> conversionType, value |-> v, status |-> out.status,
         what |-> out.what, result |-> out.result, arg |-> out.arg]

\* the conversion registered as the opposite direction of a registered one
Inverse(conversionType) ==
    CASE conversionType = "CelsiusToFahrenheit" -> "FahrenheitToCelsius"
      [] conversionType = "FahrenheitToCelsius" -> "CelsiusToFahrenheit"
      [] conversionType = "CelsiusToKelvin" -> "KelvinToCelsius"
      [] conversionType = "KelvinToCelsius" -> "CelsiusToKelvin"
      [] conversionType = "KilometersToMiles" -> "MilesToKilometers"
      [] conversionType = "MilesToKilometers" -> "KilometersToMiles"
      [] conversionType = "MetersToFeet" -> "FeetToMeters"
      [] conversionType = "FeetToMeters" -> "MetersToFeet"
      [] conversionType = "KilogramsToPounds" -> "PoundsToKilograms"
      [] conversionType = "PoundsToKilograms" -> "KilogramsToPounds"
      [] conversionType = "GramsToOunces" -> "OuncesToGrams"
      [] conversionType = "OuncesToGrams" -> "GramsToOunces"
      [] conversionType = "LitersToGallons" -> "GallonsToLiters"
      [] conversionType = "GallonsToLiters" -> "LitersToGallons"
      [] conversionType = "MillilitersToFluidOunces" -> "FluidOuncesToMilliliters"
      [] conversionType = "FluidOuncesToMilliliters" -> "MillilitersToFluidOunces"

\* a test passes conversionType and v to the next call of convert
Pick(conversionType, v) ==
    /\ call' = [NoCall EXCEPT !.name = conversionType, !.value = v,
                              !.status = "pending"]
    /\ prev' = NoCall
    /\ UNCHANGED <<conversionFunctions, cliVars>>

\* converter.convert(conversionType, value) runs
Convert ==
    /\ call.status = "pending"
    /\ call' = CallOf(conversionFunctions, call.name, call.value)
    /\ prev' = NoCall
    /\ conversionFunctions' = MapAfterFind(conversionFunctions, call.name)
    /\ UNCHANGED cliVars

\* converter.convert(inverse, converter.convert(forward, x)): the outer call
ConvertBack ==
    /\ call.status = "ok"
    /\ prev.status = "none"
    /\ call' = CallOf(conversionFunctions, Inverse(call.name), call.result)
    /\ prev' = call
    /\ conversionFunctions' = MapAfterFind(conversionFunctions, Inverse(call.name))
    /\ UNCHANGED cliVars

---------------------------------------------------------------------------
(* std::cin *)

Num(n)  == [t |-> "num", v |-> n]    \* an integer literal
Word    == [t |-> "word", v |-> 0]   \* text that is no number, such as abc
Newline == [t |-> "nl", v |-> 0]     \* the end of a line

\* what the user may type: tokens separated by blanks or line ends
Tokens == {Num(1), Num(2), Num(3), Num(4), Num(5), Num(-300), Word, Newline}

Inputs == UNION {[1..n -> Tokens] : n \in 0..MaxInput}

Good == [fail |-> FALSE, eof |-> FALSE]

RECURSIVE SkipWs(_)
SkipWs(in) ==
    IF in # <<>> /\ Head(in).t = "nl" THEN SkipWs(Tail(in)) ELSE in

\* std::cin >> x for an int or a double x.  got: the number extracted;
\* stored: what is written to x (nothing when the sentry fails, 0 when the
\* text is no number)
Extract(in, st) ==
    IF st.fail \/ st.eof
    THEN [input |-> in, cin |-> [fail |-> TRUE, eof |-> st.eof],
          got |-> <<>>, stored |-> <<>>]
    ELSE LET rest == SkipWs(in)
         IN  IF rest = <<>>
             THEN [input |-> rest, cin |-> [fail |-> TRUE, eof |-> TRUE],
                   got |-> <<>>, stored |-> <<>>]
             ELSE IF Head(rest).t = "num"
             THEN [input |-> Tail(rest),
                   cin |-> [fail |-> FALSE, eof |-> Tail(rest) = <<>>],
                   got |-> <<Head(rest).v>>, stored |-> <<Head(rest).v>>]
             ELSE [input |-> rest, cin |-> [fail |-> TRUE, eof |-> FALSE],
                   got |-> <<>>, stored |-> <<0>>]

RECURSIVE DropLine(_)
DropLine(in) ==
    IF in = <<>> THEN <<>>
    ELSE IF Head(in).t = "nl" THEN Tail(in) ELSE DropLine(Tail(in))

\* std::cin.clear(); std::cin.ignore(max, '\n');
ClearIgnore(in) ==
    [input |-> DropLine(in),
     cin |-> [fail |-> FALSE, eof |-> \A i \in 1..Len(in) : in[i].t # "nl"]]

---------------------------------------------------------------------------
(* main and the four category handlers *)

\* an int variable: not yet written (its value is indeterminate), or v
Indeterminate == [init |-> FALSE, v |-> 0]
Int32(v) == [init |-> TRUE, v |-> v]

\* the values a read of an indeterminate int may give
IndeterminateInts == {-1, 0, 1, 2, 3, 4, 5, 6}

\* the values a read of the int variable x may give
ReadInt(x) == IF x.init THEN {x.v} ELSE IndeterminateInts

\* the switch of convertTemperature
TemperatureType(c) ==
    CASE c = 1 -> "CelsiusToFahrenheit"
      [] c = 2 -> "FahrenheitToCelsius"
      [] c = 3 -> "CelsiusToKelvin"
      [] c = 4 -> "KelvinToCelsius"

\* the switch of convertDistance
DistanceType(c) ==
    CASE c = 1 -> "KilometersToMiles"
      [] c = 2 -> "MilesToKilometers"
      [] c = 3 -> "MetersToFeet"
      [] c = 4 -> "FeetToMeters"

\* the switch of convertWeight
WeightType(c) ==
    CASE c = 1 -> "KilogramsToPounds"
      [] c = 2 -> "PoundsToKilograms"
      [] c = 3 -> "GramsToOunces"
      [] c = 4 -> "OuncesToGrams"

\* the switch of convertVolume
VolumeType(c) ==
    CASE c = 1 -> "LitersToGallons"
      [] c = 2 -> "GallonsToLiters"
      [] c = 3 -> "MillilitersToFluidOunces"
      [] c = 4 -> "FluidOuncesToMilliliters"

\* `type` of handler h (1 temperature, 2 distance, 3 weight, 4 volume)
TypeOf(h, c) ==
    CASE h = 1 -> TemperatureType(c)
      [] h = 2 -> DistanceType(c)
      [] h = 3 -> WeightType(c)
      [] h = 4 -> VolumeType(c)

NoCliCall == [handler |-> 0, name |-> "", value |-> NaN, status |-> "none", what |-> ""]

\* main: std::cin >> choice fails; clear, ignore, continue to the loop test
MainInvalidInput ==
    /\ pc = "menu"
    /\ LET x  == Extract(input, cin)
           ig == ClearIgnore(x.input)
           c  == IF x.stored = <<>> THEN mainChoice ELSE Int32(x.stored[1])
       IN  /\ x.cin.fail
           /\ input' = ig.input
           /\ cin' = ig.cin
           /\ mainChoice' = c
           /\ optionRead' = <<>>
           /\ err' = "Invalid input. Please enter a number corresponding to the menu option."
           /\ \E g \in ReadInt(c) : pc' = IF g # 5 THEN "menu" ELSE "exited"
    /\ UNCHANGED <<conversionFunctions, call, prev, handler, value, choice,
                   valueRead, choiceRead, calls, cliCall>>

\* main: case 1..4, the handler h is entered
MainDispatch(h) ==
    /\ pc = "menu"
    /\ LET x == Extract(input, cin)
       IN  /\ ~x.cin.fail
           /\ x.got[1] = h
           /\ input' = x.input
           /\ cin' = x.cin
           /\ mainChoice' = Int32(h)
           /\ optionRead' = <<h>>
    /\ handler' = h
    /\ value' = NaN
    /\ choice' = Indeterminate
    /\ valueRead' = FALSE
    /\ choiceRead' = <<>>
    /\ calls' = 0
    /\ pc' = "value"
    /\ UNCHANGED <<conversionFunctions, call, prev, cliCall, err>>

\* main: case 5
MainExit ==
    /\ pc = "menu"
    /\ LET x == Extract(input, cin)
       IN  /\ ~x.cin.fail
           /\ x.got[1] = 5
           /\ input' = x.input
           /\ cin' = x.cin
           /\ mainChoice' = Int32(5)
           /\ optionRead' = <<5>>
    /\ pc' = "exited"
    /\ UNCHANGED <<conversionFunctions, call, prev, handler, value, choice,
                   valueRead, choiceRead, calls, cliCall, err>>

\* main: default
MainInvalidOption ==
    /\ pc = "menu"
    /\ LET x == Extract(input, cin)
       IN  /\ ~x.cin.fail
           /\ x.got[1] \notin 1..5
           /\ input' = x.input
           /\ cin' = x.cin
           /\ mainChoice' = Int32(x.got[1])
           /\ optionRead' = x.got
    /\ err' = "Invalid option. Please try again."
    /\ pc' = "menu"
    /\ UNCHANGED <<conversionFunctions, call, prev, handler, value, choice,
                   valueRead, choiceRead, calls, cliCall>>

\* handler: safeReadDouble(value) returns false
ReadValueFails ==
    /\ pc = "value"
    /\ LET x  == Extract(input, cin)
           ig == ClearIgnore(x.input)
       IN  /\ x.cin.fail
           /\ input' = ig.input
           /\ cin' = ig.cin
    /\ err' = "Invalid input. Please enter a numeric value."
    /\ pc' = "menu"
    /\ UNCHANGED <<conversionFunctions, call, prev, mainChoice, handler, value,
                   choice, valueRead, choiceRead, calls, cliCall, optionRead>>

\* handler: safeReadDouble(value) returns true
ReadValue ==
    /\ pc = "value"
    /\ LET x == Extract(input, cin)
       IN  /\ ~x.cin.fail
           /\ input' = x.input
           /\ cin' = x.cin
           /\ value' = Rat(x.got[1], 1)
    /\ valueRead' = TRUE
    /\ pc' = "choice"
    /\ UNCHANGED <<conversionFunctions, call, prev, mainChoice, handler, choice,
                   choiceRead, calls, cliCall, err, optionRead>>

\* handler: std::cin >> choice, then the switch
ReadChoice ==
    /\ pc = "choice"
    /\ LET x == Extract(input, cin)
           c == IF x.stored = <<>> THEN choice ELSE Int32(x.stored[1])
       IN  /\ input' = x.input
           /\ cin' = x.cin
           /\ choiceRead' = x.got
           /\ \E g \in ReadInt(c) :
                 /\ choice' = Int32(g)
                 /\ IF g \in 1..4
                    THEN pc' = "convert" /\ err' = err
                    ELSE pc' = "menu" /\ err' = "Invalid conversion selection."
    /\ UNCHANGED <<conversionFunctions, call, prev, mainChoice, handler, value,
                   valueRead, calls, cliCall, optionRead>>

\* handler: the try block around converter.convert(type, value)
CallConvert ==
    /\ pc = "convert"
    /\ LET type == TypeOf(handler, choice.v)
           out  == convert(conversionFunctions, type, value)
       IN  /\ cliCall' = [handler |-> handler, name |-> type, value |-> value,
                          status |-> out.status, what |-> out.what]
           /\ err' = IF out.status = "error" THEN "Error: " \o out.what ELSE err
           /\ conversionFunctions' = MapAfterFind(conversionFunctions, type)
    /\ calls' = calls + 1
    /\ pc' = "menu"
    /\ UNCHANGED <<call, prev, mainChoice, handler, value, choice, valueRead,
                   choiceRead, input, cin, optionRead>>

---------------------------------------------------------------------------
(* Specifications *)

\* the converter after construction; main has not read anything yet
Constructed ==
    /\ conversionFunctions = UnitConverter
    /\ call = NoCall
    /\ prev = NoCall
    /\ pc = "menu"
    /\ cin = Good
    /\ mainChoice = Indeterminate
    /\ handler = 0
    /\ value = NaN
    /\ choice = Indeterminate
    /\ valueRead = FALSE
    /\ choiceRead = <<>>
    /\ calls = 0
    /\ cliCall = NoCliCall
    /\ err = ""
    /\ optionRead = <<>>

\* a converter on which the tests call convert
Init == Constructed /\ input = <<>>

Next ==
    \/ \E conversionType \in DOMAIN UnitConverter \cup UnregisteredNames :
           \E v \in Values : Pick(conversionType, v)
    \/ Convert
    \/ ConvertBack

Spec == Init /\ [][Next]_vars

\* the program: main reading what the user types
InitCLI == Constructed /\ input \in Inputs

NextCLI ==
    \/ MainInvalidInput
    \/ \E h \in 1..4 : MainDispatch(h)
    \/ MainExit
    \/ MainInvalidOption
    \/ ReadValueFails
    \/ ReadValue
    \/ ReadChoice
    \/ CallConvert

SpecCLI == InitCLI /\ [][NextCLI]_vars

---------------------------------------------------------------------------
(* Vocabulary of the properties *)

TemperatureNames ==
    {"CelsiusToFahrenheit", "FahrenheitToCelsius", "CelsiusToKelvin", "KelvinToCelsius"}
DistanceNames ==
    {"KilometersToMiles", "MilesToKilometers", "MetersToFeet", "FeetToMeters"}
WeightNames ==
    {"KilogramsToPounds", "PoundsToKilograms", "GramsToOunces", "OuncesToGrams"}
VolumeNames ==
    {"LitersToGallons", "GallonsToLiters", "MillilitersToFluidOunces",
     "FluidOuncesToMilliliters"}
RegisteredNames == TemperatureNames \cup DistanceNames \cup WeightNames \cup VolumeNames

\* convert has run on the arguments of `call`
Done == call.status \in {"ok", "error"}

\* absolute zero in the unit the conversion takes its input in
AbsoluteZeroOf(name) ==
    CASE name \in {"CelsiusToFahrenheit", "CelsiusToKelvin"} -> Rat(-27315, 100)
      [] name = "FahrenheitToCelsius" -> Rat(-45967, 100)
      [] name = "KelvinToCelsius" -> Rat(0, 1)

BelowAbsoluteZeroMessage == "Temperature value below absolute zero is not valid."

\* the message of the category a registered magnitude conversion belongs to
NegativeMessageOf(name) ==
    CASE name \in DistanceNames -> "Negative distance values are not valid."
      [] name \in WeightNames -> "Negative weight values are not valid."
      [] name \in VolumeNames -> "Negative volume values are not valid."

\* v violates none of the category checks that apply to name
PassesChecks(name, v) ==
    /\ ~(IsTemperature(name) /\ DLess(cVal(name, v), Rat(-27315, 100)))
    /\ ~((IsDistance(name) \/ IsWeight(name) \/ IsVolume(name)) /\ DLess(v, Rat(0, 1)))

---------------------------------------------------------------------------
(* C1: each of the four temperature conversions rejects every value below  *)
(* absolute zero in the unit of its input, with the below-absolute-zero    *)
(* message.                                                                *)
C1_BelowAbsoluteZeroRejected ==
    (Done /\ call.name \in TemperatureNames
          /\ DLess(call.value, AbsoluteZeroOf(call.name)))
        => (call.status = "error" /\ call.what = BelowAbsoluteZeroMessage)

(* C2: each of the four temperature conversions accepts every value at or  *)
(* above absolute zero in the unit of its input and returns the result of  *)
(* its formula.                                                            *)
C2_AtOrAboveAbsoluteZeroAccepted ==
    (Done /\ call.name \in TemperatureNames
          /\ (call.value = AbsoluteZeroOf(call.name)
                 \/ DLess(AbsoluteZeroOf(call.name), call.value)))
        => (call.status = "ok"
              /\ call.result = Apply(UnitConverter[call.name], call.arg))

(* C3: each of the 12 distance, weight and volume conversions rejects      *)
(* every negative value with the message of its own category.              *)
C3_NegativeRejectedWithOwnMessage ==
    (Done /\ call.name \in DistanceNames \cup WeightNames \cup VolumeNames
          /\ DLess(call.value, Rat(0, 1)))
        => (call.status = "error" /\ call.what = NegativeMessageOf(call.name))

(* C4: a name that is not registered, with a value that passes the         *)
(* category checks applying to the name, fails with "Invalid conversion    *)
(* type: " followed by the name, also when the name holds a category word. *)
C4_UnknownConversion ==
    (Done /\ call.name \notin RegisteredNames /\ PassesChecks(call.name, call.value))
        => (call.status = "error"
              /\ call.what = "Invalid conversion type: " \o call.name)

C4_Witness ==
    /\ call.status = "error"
    /\ call.name = "MetersToYards"
    /\ call.value = Rat(100, 1)
    /\ call.what = "Invalid conversion type: MetersToYards"

(* C5: for a registered name, a value above 1,000,000 succeeds with the    *)
(* result of the same conversion of 1,000,000, and a value in              *)
(* [0, 1,000,000] reaches the formula unchanged.                           *)
C5_UpperClamp ==
    /\ (Done /\ call.name \in RegisteredNames
             /\ DGreater(call.value, Rat(1000000, 1)))
          => (call.status = "ok"
                /\ call.result =
                     convert(conversionFunctions, call.name, Rat(1000000, 1)).result)
    /\ (Done /\ call.name \in RegisteredNames
             /\ ~DLess(call.value, Rat(0, 1)) /\ ~DGreater(call.value, Rat(1000000, 1))
             /\ IsFinite(call.value))
          => (call.status = "ok" /\ call.arg = call.value)

C5_Witness ==
    /\ call.status = "ok"
    /\ call.name = "MilesToKilometers"
    /\ call.value = Rat(10000000, 1)
    /\ call.arg = Rat(1000000, 1)
    /\ call.result = Mk(1609344, 309376, 621371)

(* C6: for each pair of inverse conversions and every value the forward    *)
(* conversion accepts, the inverse accepts the forward result and gives    *)
(* the value back.                                                         *)
C6_RoundTrip ==
    (prev.status = "ok" /\ Done)
        => (call.status = "ok" /\ IsFinite(call.result) /\ call.result = prev.value)

(* C7: for a registered name and any double, convert fails with a          *)
(* non-empty message or returns a result that is neither NaN nor infinite. *)
C7_FiniteOrError ==
    (Done /\ call.name \in RegisteredNames)
        => \/ call.status = "error" /\ call.what # ""
           \/ call.status = "ok" /\ ~IsNaN(call.result) /\ ~IsInf(call.result)

(* C8: the registry holds exactly the 16 names after construction, and no  *)
(* call of convert, failed or not, on any name, changes its names or the   *)
(* formula bound to a name.                                                *)
C8_RegistryUnchanged ==
    /\ DOMAIN conversionFunctions = RegisteredNames
    /\ Cardinality(DOMAIN conversionFunctions) = 16
    /\ conversionFunctions = UnitConverter

C8_Witness ==
    /\ call.status = "error"
    /\ call.name = "InvalidType"
    /\ call.what = "Invalid conversion type: InvalidType"
    /\ DOMAIN conversionFunctions = RegisteredNames

(* C9: main ends only when option 5 was read at the main menu; no failure  *)
(* ends it.                                                                *)
C9_ExitsOnlyOnOption5 ==
    pc = "exited" => optionRead = <<5>>

(* C10: a handler calls convert at most once, only after the value and a   *)
(* choice in 1..4 were read, and with a name of its own category.          *)
C10_ConvertOnlyAfterReads ==
    /\ calls <= 1
    /\ (pc = "convert" \/ calls = 1)
          => (valueRead /\ choiceRead \in {<<1>>, <<2>>, <<3>>, <<4>>})
    /\ calls = 1
          => cliCall.name \in (CASE cliCall.handler = 1 -> TemperatureNames
                                 [] cliCall.handler = 2 -> DistanceNames
                                 [] cliCall.handler = 3 -> WeightNames
                                 [] cliCall.handler = 4 -> VolumeNames)

\* the message of the first check, in the order temperature, distance,
\* weight, volume, lookup, that name and v fail; "" when they fail none
FirstViolation(name, v) ==
    IF IsTemperature(name) /\ DLess(cVal(name, v), Rat(-27315, 100))
    THEN BelowAbsoluteZeroMessage
    ELSE IF IsDistance(name) /\ DLess(v, Rat(0, 1))
    THEN "Negative distance values are not valid."
    ELSE IF IsWeight(name) /\ DLess(v, Rat(0, 1))
    THEN "Negative weight values are not valid."
    ELSE IF IsVolume(name) /\ DLess(v, Rat(0, 1))
    THEN "Negative volume values are not valid."
    ELSE IF name \notin RegisteredNames
    THEN "Invalid conversion type: " \o name
    ELSE ""

(* C11: the error convert reports is that of the first check the value     *)
(* violates in the order temperature, distance, weight, volume, lookup; a  *)
(* range violation comes before the unknown name, which is reported only   *)
(* when no category check is violated.                                     *)
C11_CheckOrder ==
    Done =>
        /\ (call.status = "error") <=> (FirstViolation(call.name, call.value) # "")
        /\ call.status = "error" => call.what = FirstViolation(call.name, call.value)
        /\ (call.status = "error" /\ ~PassesChecks(call.name, call.value))
              => call.what # "Invalid conversion type: " \o call.name

C11_Witness ==
    /\ call.status = "error"
    /\ call.name = "MetersToYards"
    /\ call.value = Rat(-10, 1)
    /\ call.what = "Negative distance values are not valid."

\* x lies in [-1,000,000, 1,000,000]
InClampRange(x) ==
    /\ IsFinite(x)
    /\ ~DLess(x, Rat(-1000000, 1))
    /\ ~DGreater(x, Rat(1000000, 1))

CategoryMessages ==
    {BelowAbsoluteZeroMessage, "Negative distance values are not valid.",
     "Negative weight values are not valid.", "Negative volume values are not valid."}

(* C12: for a registered name, every value below -1,000,000 fails a        *)
(* category check and gives no result, so no returned value went through   *)
(* the lower clamp, and every value handed to a registered formula lies in *)
(* [-1,000,000, 1,000,000].                                                *)
C12_FormulaArgumentInRange ==
    (Done /\ call.name \in RegisteredNames) =>
        /\ DLess(call.value, Rat(-1000000, 1))
              => (call.status = "error" /\ call.what \in CategoryMessages)
        /\ call.status = "ok" => ~DLess(call.value, Rat(-1000000, 1))
        /\ call.status = "ok" => InClampRange(call.arg)

====
